---- MODULE Spec2Model ----
(***************************************************************************)
(* Client-side API / auth / session layer of career-compass:               *)
(*   frontend/src/services/api.ts        Token Store, apiRequest,          *)
(*                                       tryRefreshToken, login, register  *)
(*   frontend/src/context/UserContext.tsx  Session Context (UserProvider)  *)
(*   unnamed/part_005 (Settings page)    handleDeleteAccount               *)
(*   frontend/src/hooks/useApi.ts        query and resume-mutation hooks   *)
(* and, each called alone, the Token Store (SpecStore) and the resume      *)
(* mutations with the NDJSON read loop of processResume (SpecStream; next  *)
(* to logout: SpecResume).                                                 *)
(*                                                                         *)
(* Execution model.  The page is single threaded.  An async function runs  *)
(* without interruption between two awaits of a network promise; the only  *)
(* points where other handlers interleave are `await fetch(...)` and the   *)
(* body read `await response.json()` that follows it.  Between the arrival *)
(* of the response head and of its body the function touches no shared     *)
(* state, so both awaits are one step here: a Response carries its status  *)
(* and its body.  Awaits of promises of this module's own async functions  *)
(* resume in the same microtask drain and are not interleaving points.     *)
(*                                                                         *)
(* The server is unconstrained: every request may be answered by any       *)
(* Response, or fail at the network level.                                 *)
(***************************************************************************)
EXTENDS Integers, Sequences, FiniteSets, TLC

\* ------------------------------------------------------------------ bounds
\* token pairs the server can issue in one run (one may be left over from an
\* earlier visit of the page)
MaxTok == 2
\* user ids the server knows
NumUsers == 2
\* operations that can be in flight at once, besides the mount effect
NumTasks == 1

\* ------------------------------------------------------------- token store
ACCESS_TOKEN_KEY == "career_compass_access_token"
REFRESH_TOKEN_KEY == "career_compass_refresh_token"
StorageKeys == {ACCESS_TOKEN_KEY, REFRESH_TOKEN_KEY}

\* localStorage.getItem of a key that is not set
Null == -1
\* Strings are numbered: 0 is the empty string, n > 0 a non-empty string.
EmptyStr == 0
\* JavaScript truthiness of a `string | null`
Truthy(v) == v # Null /\ v # EmptyStr

\* The strings of the n-th token response of the server
AccessOf(n) == 2 * n - 1
RefreshOf(n) == 2 * n
AuthTokens(n) == [access_token |-> AccessOf(n), refresh_token |-> RefreshOf(n)]

EmptyStorage == [k \in StorageKeys |-> Null]

\* api.ts 98-100
getAccessToken(st) == st[ACCESS_TOKEN_KEY]

\* api.ts 102-104
getRefreshToken(st) == st[REFRESH_TOKEN_KEY]

\* a setTokens that writes each token under the other key
setTokens_Swapped(st, tokens) ==
    [[st EXCEPT ![ACCESS_TOKEN_KEY] = tokens.refresh_token]
         EXCEPT ![REFRESH_TOKEN_KEY] = tokens.access_token]

\* api.ts 106-109
setTokens(st, tokens) ==
    [[st EXCEPT ![ACCESS_TOKEN_KEY] = tokens.access_token]
        EXCEPT ![REFRESH_TOKEN_KEY] = tokens.refresh_token]

\* a clearTokens that removes the access token only
clearTokens_AccessOnly(st) == [st EXCEPT ![ACCESS_TOKEN_KEY] = Null]

\* api.ts 111-114
clearTokens(st) ==
    [[st EXCEPT ![ACCESS_TOKEN_KEY] = Null] EXCEPT ![REFRESH_TOKEN_KEY] = Null]

\* api.ts 116-118 isAuthenticated(), imported by the context as checkAuth
checkAuth(st) == Truthy(getAccessToken(st))

\* ---------------------------------------------------------------- network
\* What one awaited fetch (with the read of its body) can produce.  status 0
\* stands for fetch() rejecting (network error).  An OK response has a body
\* that is JSON ("json", with payload val) or not ("garbage"); a non-OK one
\* has JSON with a detail field ("detail"), JSON without one ("nodetail"), or
\* a body that is not JSON ("garbage").
Users == 1..NumUsers
\* the context's user while nobody is loaded (UserContext.tsx 30)
NoUser == 0
NetworkError == [status |-> 0, body |-> "none", val |-> 0]
OkResponses ==
    {[status |-> 200, body |-> "json", val |-> u] : u \in Users}
        \cup {[status |-> 200, body |-> "garbage", val |-> 0]}
ErrorResponses ==
    {[status |-> s, body |-> b, val |-> 0] :
        s \in {401, 500}, b \in {"detail", "nodetail", "garbage"}}
Responses == OkResponses \cup ErrorResponses \cup {NetworkError}

\* The responses a call site tells apart.  A token response carries no user;
\* of a refresh response only `ok` and, when OK, the body are read; only
\* /auth/me answers with a user.
TokenResponses == {r \in Responses : r.val <= 1}
RefreshResponses == {r \in TokenResponses : r.body \in {"json", "garbage", "none", "detail"}}
EndpointResponses(kind) ==
    IF kind \in {"mount", "login", "register", "refreshUser", "upload"} THEN Responses
    ELSE {r \in Responses : r.val <= 1}

\* response.ok
IsOk(r) == r.status >= 200 /\ r.status <= 299

\* ----------------------------------------------------------------- errors
MsgAuthRequired == "Authentication required"
MsgSessionExpired == "Session expired. Please login again."
MsgServerDetail == "<detail sent by the server>"
MsgFetchFailed == "<TypeError: fetch failed>"
MsgBadJson == "<SyntaxError: body is not JSON>"

NoResult == [type |-> "none", status |-> 0, msg |-> "", val |-> 0]
\* new ApiError(status, message)
ApiError(status, message) ==
    [type |-> "ApiError", status |-> status, msg |-> message, val |-> 0]
\* the TypeError a rejected fetch() throws
FetchError == [type |-> "TypeError", status |-> 0, msg |-> MsgFetchFailed, val |-> 0]
\* the SyntaxError response.json() throws on a body that is not JSON
JsonError == [type |-> "SyntaxError", status |-> 0, msg |-> MsgBadJson, val |-> 0]
\* the parsed body of an OK response
Value(r) == [type |-> "value", status |-> r.status, msg |-> "", val |-> r.val]

\* `(await response.json().catch(() => ({detail: onGarbage}))).detail || onEmpty`
ErrorDetail(r, onGarbage, onEmpty) ==
    CASE r.body = "detail" -> MsgServerDetail
      [] r.body = "garbage" -> onGarbage
      [] OTHER -> onEmpty

\* an error path that never reads the body of the response
ResultOf_NoDetail(r) ==
    IF r.status = 0 THEN FetchError
    ELSE IF ~IsOk(r) THEN ApiError(r.status, "Request failed")
    ELSE IF r.body = "json" THEN Value(r)
    ELSE JsonError

\* What a non-401 path of apiRequest makes of a response: lines 169-174, and
\* the same code for the retried response at 158-162.
ResultOf(r) ==
    IF r.status = 0 THEN FetchError
    ELSE IF ~IsOk(r)
        THEN ApiError(r.status, ErrorDetail(r, "Unknown error", "Request failed"))
    ELSE IF r.body = "json" THEN Value(r)
    ELSE JsonError

\* ------------------------------------------------------------------ tasks
\* One record per running or finished asynchronous operation.
\*   kind      the operation
\*   pc        "idle", "cred" (login/register call in flight), "req" (first
\*             request of apiRequest in flight), "refresh" (refresh call in
\*             flight), "retry" (retried request in flight), "done"
\*   entered   apiRequest was called in the step just taken
\*   attached  apiRequest's local `token` is truthy: the request was built
\*             with an Authorization header
\*   token     what getAccessToken() returned when the request was built
\*   auth      the Authorization header of the request just sent (Null: none)
\*   rtok      the refresh token just sent with the refresh call
\*   uid       the user id the query just started is keyed by and sent for
\*   nCred, nReq, nRefresh   fetches issued: credential, endpoint, refresh
\*   cause     why the refresh failed
\*   last      the response that settled the apiRequest
\*   res       what the apiRequest (or the credential call) settled with
IdleTask ==
    [kind |-> "none", pc |-> "idle", entered |-> FALSE, attached |-> FALSE,
     token |-> Null,
     auth |-> Null,
     rtok |-> Null, uid |-> NoUser, nCred |-> 0, nReq |-> 0,
     nRefresh |-> 0, cause |-> "none", last |-> NetworkError, res |-> NoResult]

NewTask(kind) == [IdleTask EXCEPT !.kind = kind]

\* the third argument of apiRequest at each call site (api.ts 244-257, 371-420)
RequireAuth(kind) == kind # "query"

Settle(tk, r, res) == [tk EXCEPT !.pc = "done", !.last = r, !.res = res]

\* Outcome of a step of apiRequest: the task, the storage and the number of
\* token pairs issued so far.
Out(tk, st, iss) == [tk |-> tk, st |-> st, iss |-> iss]

\* apiRequest without the check of line 141: the request goes out unauthenticated
ApiRequestStart_Unchecked(tk, st, iss) ==
    LET token == getAccessToken(st)
        call == [tk EXCEPT !.entered = TRUE, !.token = token] IN
    IF Truthy(token)
        THEN Out([call EXCEPT !.pc = "req", !.attached = TRUE, !.auth = token,
                              !.nReq = 1], st, iss)
    ELSE Out([call EXCEPT !.pc = "req", !.nReq = 1], st, iss)

\* api.ts 136-147: attach the token, or fail before any network call
ApiRequestStart(tk, st, iss) ==
    LET token == getAccessToken(st)
        call == [tk EXCEPT !.entered = TRUE, !.token = token] IN
    IF Truthy(token)
        THEN Out([call EXCEPT !.pc = "req", !.attached = TRUE, !.auth = token,
                              !.nReq = 1], st, iss)
    ELSE IF RequireAuth(tk.kind)
        THEN Out(Settle(call, NetworkError, ApiError(401, MsgAuthRequired)), st, iss)
    ELSE Out([call EXCEPT !.pc = "req", !.nReq = 1], st, iss)

\* a failed refresh that leaves the tokens in localStorage
RefreshFailed_KeepTokens(tk, r, st, iss, cause) ==
    Out([Settle(tk, r, ApiError(401, MsgSessionExpired)) EXCEPT !.cause = cause],
        st, iss)

\* api.ts 163-166: the refresh did not succeed
RefreshFailed(tk, r, st, iss, cause) ==
    Out([Settle(tk, r, ApiError(401, MsgSessionExpired)) EXCEPT !.cause = cause],
        clearTokens(st), iss)

\* an apiRequest that tries a refresh on every 401, token attached or not
ApiRequestOnResponse_AnyUnauthorized(tk, r, st, iss) ==
    IF r.status = 401
        THEN LET refreshToken == getRefreshToken(st) IN
             IF ~Truthy(refreshToken)
                 THEN RefreshFailed(tk, r, st, iss, "no refresh token")
             ELSE Out([tk EXCEPT !.pc = "refresh", !.rtok = refreshToken,
                                 !.nRefresh = @ + 1], st, iss)
    ELSE Out(Settle(tk, r, ResultOf(r)), st, iss)

\* api.ts 144-175 at the first response; 177-188 when the refresh is started
ApiRequestOnResponse(tk, r, st, iss) ==
    IF r.status = 401 /\ tk.attached
        THEN LET refreshToken == getRefreshToken(st) IN
             IF ~Truthy(refreshToken)
                 THEN RefreshFailed(tk, r, st, iss, "no refresh token")
             ELSE Out([tk EXCEPT !.pc = "refresh", !.rtok = refreshToken,
                                 !.nRefresh = @ + 1], st, iss)
    ELSE Out(Settle(tk, r, ResultOf(r)), st, iss)

\* a retry that sends the header value read before the new tokens were stored
TryRefreshOnResponse_StaleToken(tk, r, st, iss) ==
    IF r.status = 0 THEN RefreshFailed(tk, r, st, iss, "network error")
    ELSE IF ~IsOk(r) THEN RefreshFailed(tk, r, st, iss, "non-OK response")
    ELSE IF r.body # "json" THEN RefreshFailed(tk, r, st, iss, "body not JSON")
    ELSE LET newToken == getAccessToken(st)
             st2 == setTokens(st, AuthTokens(iss + 1)) IN
         Out([tk EXCEPT !.pc = "retry", !.auth = newToken, !.nReq = @ + 1],
             st2, iss + 1)

\* api.ts 190-198 and 152-156: the refresh call settles; on success the new
\* tokens are stored and the request is sent again with the stored token
TryRefreshOnResponse(tk, r, st, iss) ==
    IF r.status = 0 THEN RefreshFailed(tk, r, st, iss, "network error")
    ELSE IF ~IsOk(r) THEN RefreshFailed(tk, r, st, iss, "non-OK response")
    ELSE IF r.body # "json" THEN RefreshFailed(tk, r, st, iss, "body not JSON")
    ELSE LET st2 == setTokens(st, AuthTokens(iss + 1))
             newToken == getAccessToken(st2) IN
         Out([tk EXCEPT !.pc = "retry", !.auth = newToken, !.nReq = @ + 1],
             st2, iss + 1)

\* a retry that treats a second 401 as an expired session: it removes the
\* tokens the refresh has just stored
RetryOnResponse_ClearsOn401(tk, r, st, iss) ==
    IF r.status = 401 THEN RefreshFailed(tk, r, st, iss, "second 401")
    ELSE Out(Settle(tk, r, ResultOf(r)), st, iss)

\* api.ts 156-162: the retried response is final
RetryOnResponse(tk, r, st, iss) == Out(Settle(tk, r, ResultOf(r)), st, iss)

\* a credential call that reports every failure with its own fixed message
\* and the status 400
CredentialOnResponse_Generic(tk, r, st, iss) ==
    IF r.status = 0 THEN Out(Settle(tk, r, FetchError), st, iss)
    ELSE IF ~IsOk(r)
        THEN Out(Settle(tk, r, ApiError(400, "Login failed")), st, iss)
    ELSE IF r.body # "json" THEN Out(Settle(tk, r, JsonError), st, iss)
    ELSE ApiRequestStart(tk, setTokens(st, AuthTokens(iss + 1)), iss + 1)

\* api.ts 222-237 login and 205-220 register, once the credential call has
\* settled: a failure is thrown, a success stores the tokens.  The context
\* then calls getCurrentUser() at once (UserContext.tsx 60-61, 78-79).
CredentialOnResponse(tk, r, st, iss) ==
    LET onGarbage == IF tk.kind = "login" THEN "Login failed"
                     ELSE "Registration failed"
        onEmpty == IF tk.kind = "login" THEN "Invalid email or password"
                   ELSE "Registration failed" IN
    IF r.status = 0 THEN Out(Settle(tk, r, FetchError), st, iss)
    ELSE IF ~IsOk(r)
        THEN Out(Settle(tk, r, ApiError(r.status, ErrorDetail(r, onGarbage, onEmpty))),
                 st, iss)
    ELSE IF r.body # "json" THEN Out(Settle(tk, r, JsonError), st, iss)
    ELSE ApiRequestStart(tk, setTokens(st, AuthTokens(iss + 1)), iss + 1)

\* ------------------------------------------------- Token Store, called alone
\* The strings a caller can pass: the empty string and MaxStr others
MaxStr == 9
Strings == EmptyStr..MaxStr
TokenPairs == [access_token : Strings, refresh_token : Strings]
NoTokens == [access_token |-> Null, refresh_token |-> Null]
\* A call of the Token Store: `after` and `tokens` are the call before a read
\* and its argument; access, refresh and auth are what the read returned.
NoCall ==
    [op |-> "none", after |-> "none", tokens |-> NoTokens,
     access |-> Null, refresh |-> Null, auth |-> FALSE]

\* --------------------------------------------- processResume: the NDJSON stream
\* Bytes of a response body: the digit 1, a space, a line feed, and the two
\* bytes C3 A9 of the character e-acute.
MaxBody == 5
NL == "\n"
Lead == "C3"
Cont == "A9"
Bytes == {"1", " ", NL, Lead, Cont}
Bodies == UNION {[1..n -> Bytes] : n \in 0..MaxBody}
EAcute == "e-acute"
Replacement == "U+FFFD"

\* api.ts 339, 346: TextDecoder.decode(value, {stream: true}) of UTF-8: a lead
\* byte at the end of a chunk is kept for the next call; a byte that cannot
\* continue or start a character decodes to U+FFFD.
Decoded(text, pending) == [text |-> text, pending |-> pending]
RECURSIVE Decode(_, _)
Decode(value, pending) ==
    IF value = <<>> THEN Decoded(<<>>, pending)
    ELSE LET b == Head(value)
             At(c, d) == Decoded(<<c>> \o d.text, d.pending) IN
         IF pending
             THEN IF b = Cont THEN At(EAcute, Decode(Tail(value), FALSE))
                  ELSE At(Replacement, Decode(value, FALSE))
         ELSE IF b = Lead THEN Decode(Tail(value), TRUE)
         ELSE IF b = Cont THEN At(Replacement, Decode(Tail(value), FALSE))
         ELSE At(b, Decode(Tail(value), FALSE))

\* api.ts 347: buffer.split('\n')
RECURSIVE Split(_)
Split(s) ==
    IF \A i \in 1..Len(s) : s[i] # NL THEN <<s>>
    ELSE LET i == CHOOSE k \in 1..Len(s) : s[k] = NL /\ \A j \in 1..(k - 1) : s[j] # NL IN
         <<SubSeq(s, 1, i - 1)>> \o Split(SubSeq(s, i + 1, Len(s)))

\* api.ts 351: line.trim()
RECURSIVE Trim(_)
Trim(s) ==
    IF s = <<>> THEN s
    ELSE IF Head(s) = " " THEN Trim(Tail(s))
    ELSE IF s[Len(s)] = " " THEN Trim(SubSeq(s, 1, Len(s) - 1))
    ELSE s

RECURSIVE NumberOf(_)
NumberOf(digits) ==
    IF digits = <<>> THEN 0 ELSE 10 * NumberOf(SubSeq(digits, 1, Len(digits) - 1)) + 1

\* api.ts 353: JSON.parse(line): white space around one JSON value, here a
\* number written with the digit 1; anything else is a SyntaxError
JsonParse(line) ==
    LET t == Trim(line) IN
    IF t # <<>> /\ \A i \in 1..Len(t) : t[i] = "1"
        THEN [ok |-> TRUE, val |-> NumberOf(t)]
    ELSE [ok |-> FALSE, val |-> 0]

\* The progress callback throws on this value (NeverThrows: on none)
NeverThrows == 0
ThrowsOn == {NeverThrows, 1}

\* api.ts 350-359: the lines of one read, in order: blank lines are skipped,
\* a line that parses is handed to the callback, a parse failure or a throw
\* of the callback is logged with the line
Handled(events, logged) == [events |-> events, logged |-> logged]
RECURSIVE HandleLines(_, _, _, _)
HandleLines(lines, events, logged, throwOn) ==
    IF lines = <<>> THEN Handled(events, logged)
    ELSE LET line == Head(lines)
             event == JsonParse(line) IN
         IF Trim(line) = <<>> THEN HandleLines(Tail(lines), events, logged, throwOn)
         ELSE IF ~event.ok
             THEN HandleLines(Tail(lines), events, Append(logged, line), throwOn)
         ELSE IF event.val = throwOn
             THEN HandleLines(Tail(lines), Append(events, event.val),
                              Append(logged, line), throwOn)
         ELSE HandleLines(Tail(lines), Append(events, event.val), logged, throwOn)

\* One resume mutation, uploadResume (kind "upload") or processResume (kind
\* "process"): phase is where the call stands (fetch: the POST is in flight;
\* reading: in the read loop; resolved / rejected: settled, res the value or
\* the error); uid the user id it was called with; auth its Authorization
\* header (Null: none); nReq / nRefresh the requests and refresh calls it
\* has made; last the response to its POST; body the bytes of an OK
\* streaming response and pos how many were read; pending the decoder's kept
\* lead byte; buffer the partial line; events the values the callback was
\* called with; logged the lines logged; carried the last partial line a
\* read left in the buffer; midChar: a read has ended inside a character;
\* stale the query-cache entries invalidated by the mutation's onSuccess.
NoStream ==
    [phase |-> "none", body |-> <<>>, pos |-> 0, pending |-> FALSE, buffer |-> <<>>,
     events |-> <<>>, logged |-> <<>>, throwOn |-> NeverThrows,
     carried |-> <<>>, midChar |-> FALSE, res |-> NoResult,
     kind |-> "none", uid |-> NoUser, auth |-> Null, nReq |-> 0, nRefresh |-> 0,
     last |-> NetworkError, stale |-> {}]

\* useApi.ts 29, 48, 67, 86, 153: the resource names that start the query keys
QueryResources == {"recommendations", "skills", "analysis", "roadmap", "resume-analyze"}
\* the keys of the cache entries: resource name, then user id
CacheKeys == QueryResources \X Users
\* queryClient.invalidateQueries({ queryKey: [prefix] }) reaches every entry
\* whose key starts with the prefix
Matching(prefix) == {k \in CacheKeys : k[1] = prefix}

\* an onSuccess that leaves the roadmap entries alone
MutationSuccess_NoRoadmap(s) ==
    [s EXCEPT !.stale = @ \cup Matching("recommendations") \cup Matching("skills")
                          \cup Matching("analysis")]

\* useApi.ts 110-117 and 134-141: onSuccess of the two resume mutations
\* (setHasResume(true) is in the actions)
MutationSuccess(s) ==
    [s EXCEPT !.stale = @ \cup Matching("recommendations") \cup Matching("skills")
                          \cup Matching("analysis") \cup Matching("roadmap")]

\* useApi.ts 107, 131: thrown by mutationFn before the client is called
NotLoggedIn == [type |-> "Error", status |-> 0, msg |-> "User not logged in", val |-> 0]

\* api.ts 307 / 329: the fallback message of each client
UploadFallback(kind) == IF kind = "upload" THEN "Upload failed" ELSE "Processing failed"

\* useApi.ts 106-109 / 130-133 and api.ts 281-294 / 305-326: the mutation up
\* to the await of fetch; the token is attached when there is one
UploadStart(kind, u, st, throwOn) ==
    IF u = NoUser
        THEN [NoStream EXCEPT !.kind = kind, !.phase = "rejected", !.res = NotLoggedIn]
    ELSE [NoStream EXCEPT !.kind = kind, !.phase = "fetch", !.uid = u,
                          !.auth = IF Truthy(getAccessToken(st)) THEN getAccessToken(st)
                                   ELSE Null,
                          !.nReq = 1, !.throwOn = throwOn]

StreamOut(s, st) == [s |-> s, st |-> st]

\* an upload client that treats a 401 as apiRequest does when no refresh
\* token is left: it removes the tokens
UploadRejected_ClearsOn401(s, r, st) ==
    IF r.status = 0
        THEN StreamOut([s EXCEPT !.phase = "rejected", !.last = r, !.res = FetchError], st)
    ELSE StreamOut([s EXCEPT !.phase = "rejected", !.last = r,
                        !.res = ApiError(r.status,
                            ErrorDetail(r, UploadFallback(s.kind), UploadFallback(s.kind)))],
                   IF r.status = 401 THEN clearTokens(st) ELSE st)

\* api.ts 291-299 / 319-331: fetch rejects, or the response is not OK
UploadRejected(s, r, st) ==
    IF r.status = 0
        THEN StreamOut([s EXCEPT !.phase = "rejected", !.last = r, !.res = FetchError], st)
    ELSE StreamOut([s EXCEPT !.phase = "rejected", !.last = r,
                        !.res = ApiError(r.status,
                            ErrorDetail(r, UploadFallback(s.kind), UploadFallback(s.kind)))],
                   st)

\* api.ts 291-302: uploadResume once the response has arrived
UploadOnResponse(s, r, st) ==
    IF ~IsOk(r) THEN UploadRejected(s, r, st)
    ELSE IF r.body # "json"
        THEN StreamOut([s EXCEPT !.phase = "rejected", !.last = r, !.res = JsonError], st)
    ELSE StreamOut(MutationSuccess([s EXCEPT !.phase = "resolved", !.last = r,
                                             !.res = Value(r)]), st)

\* api.ts 319-340: processResume once the response has arrived
ProcessOnResponse(s, r, body, st) ==
    IF ~IsOk(r) THEN UploadRejected(s, r, st)
    ELSE StreamOut([s EXCEPT !.phase = "reading", !.last = r, !.body = body], st)

\* a read loop that drops the partial line at the end of each read
ReadChunk_NoCarry(s, value) ==
    LET d == Decode(value, s.pending)
        lines == Split(s.buffer \o d.text)
        h == HandleLines(SubSeq(lines, 1, Len(lines) - 1), s.events, s.logged, s.throwOn) IN
    [s EXCEPT !.pos = @ + Len(value), !.pending = d.pending,
              !.buffer = <<>>,
              !.events = h.events, !.logged = h.logged,
              !.carried = IF lines[Len(lines)] # <<>> THEN lines[Len(lines)] ELSE @,
              !.midChar = @ \/ d.pending]

\* a read loop that decodes every chunk on its own, without {stream: true}:
\* a character cut by the end of a read is lost
ReadChunk_EachAlone(s, value) ==
    LET d == Decode(value, FALSE)
        text == IF d.pending THEN Append(d.text, Replacement) ELSE d.text
        lines == Split(s.buffer \o text)
        h == HandleLines(SubSeq(lines, 1, Len(lines) - 1), s.events, s.logged, s.throwOn) IN
    [s EXCEPT !.pos = @ + Len(value), !.pending = FALSE,
              !.buffer = lines[Len(lines)],
              !.events = h.events, !.logged = h.logged,
              !.carried = IF lines[Len(lines)] # <<>> THEN lines[Len(lines)] ELSE @,
              !.midChar = @ \/ d.pending]

\* a read loop whose try block covers JSON.parse only: a throw of the
\* callback leaves the loop and rejects the call
ReadChunk_ThrowEscapes(s, value) ==
    LET d == Decode(value, s.pending)
        lines == Split(s.buffer \o d.text)
        h == HandleLines(SubSeq(lines, 1, Len(lines) - 1), s.events, s.logged, s.throwOn)
        threw == \E i \in (Len(s.logged) + 1)..Len(h.logged) : JsonParse(h.logged[i]).ok IN
    [s EXCEPT !.pos = @ + Len(value), !.pending = d.pending,
              !.buffer = lines[Len(lines)],
              !.events = h.events, !.logged = h.logged,
              !.carried = IF lines[Len(lines)] # <<>> THEN lines[Len(lines)] ELSE @,
              !.midChar = @ \/ d.pending,
              !.phase = IF threw THEN "rejected" ELSE @]

\* api.ts 342-360: one pass of the loop with a chunk read
ReadChunk(s, value) ==
    LET d == Decode(value, s.pending)
        lines == Split(s.buffer \o d.text)
        h == HandleLines(SubSeq(lines, 1, Len(lines) - 1), s.events, s.logged, s.throwOn) IN
    [s EXCEPT !.pos = @ + Len(value), !.pending = d.pending,
              !.buffer = lines[Len(lines)],
              !.events = h.events, !.logged = h.logged,
              !.carried = IF lines[Len(lines)] # <<>> THEN lines[Len(lines)] ELSE @,
              !.midChar = @ \/ d.pending]

\* -------------------------------------------------------- session context
VARIABLES
    storage,          \* localStorage: key -> string or Null
    user,             \* useState<User | null>: a user id or NoUser
    isLoading,        \* useState(true)
    error,            \* useState<string | null>
    hasResume,        \* useState(false)
    isAuthenticated,  \* useState(false)
    mounted,          \* the mount effect of UserProvider has run
    task,             \* slot -> the operation in flight there (IdleTask: none);
                      \* slot 0 is the mount effect
    issued,           \* token pairs the server has issued
    lastOp,           \* the operation whose code ran in the last step, as a
                      \* task record: pc = "done" and res when it settled there
    call,             \* the last call made to the Token Store on its own
    stream            \* one call of processResume: its response and locals

ctxVars == <<user, isLoading, error, hasResume, isAuthenticated>>
vars == <<storage, user, isLoading, error, hasResume, isAuthenticated,
          mounted, task, issued, lastOp, call, stream>>
sessionVars == <<user, isLoading, error, hasResume, isAuthenticated,
                 mounted, task, issued, lastOp>>

NoError == "<null>"

Slots == 0..NumTasks
OpSlots == 1..NumTasks

\* The context's state as one value
Ctx ==
    [user |-> user, isLoading |-> isLoading, error |-> error,
     hasResume |-> hasResume, isAuthenticated |-> isAuthenticated]

SetCtx(c) ==
    /\ user' = c.user
    /\ isLoading' = c.isLoading
    /\ error' = c.error
    /\ hasResume' = c.hasResume
    /\ isAuthenticated' = c.isAuthenticated

Both(c, st) == [ctx |-> c, st |-> st]

\* a logout that skips apiLogout(): the tokens stay in localStorage
logout_KeepTokens(c, st) ==
    Both([c EXCEPT !.user = NoUser, !.hasResume = FALSE, !.isAuthenticated = FALSE], st)

\* UserContext.tsx 91-96 logout, with api.ts 239-241
logout(c, st) ==
    Both([c EXCEPT !.user = NoUser, !.hasResume = FALSE, !.isAuthenticated = FALSE],
         clearTokens(st))

\* an initAuth whose catch block leaves the tokens in localStorage
initAuthSettled_KeepTokens(c, st, res) ==
    IF res.type = "value"
        THEN Both([c EXCEPT !.user = res.val, !.isAuthenticated = TRUE,
                            !.isLoading = FALSE], st)
    ELSE Both([c EXCEPT !.isAuthenticated = FALSE, !.isLoading = FALSE], st)

\* UserContext.tsx 41-50: initAuth once getCurrentUser() has settled
initAuthSettled(c, st, res) ==
    IF res.type = "value"
        THEN Both([c EXCEPT !.user = res.val, !.isAuthenticated = TRUE,
                            !.isLoading = FALSE], st)
    ELSE Both([c EXCEPT !.isAuthenticated = FALSE, !.isLoading = FALSE],
              clearTokens(st))

\* a login without the finally block: a failure leaves isLoading set
loginSettled_NoFinally(c, st, res) ==
    IF res.type = "value"
        THEN Both([c EXCEPT !.user = res.val, !.isAuthenticated = TRUE,
                            !.isLoading = FALSE], st)
    ELSE Both([c EXCEPT !.error = res.msg], st)

\* UserContext.tsx 60-70 login and 78-88 register, once the credential call
\* or getCurrentUser() has settled
loginSettled(c, st, res) ==
    IF res.type = "value"
        THEN Both([c EXCEPT !.user = res.val, !.isAuthenticated = TRUE,
                            !.isLoading = FALSE], st)
    ELSE Both([c EXCEPT !.error = res.msg, !.isLoading = FALSE], st)

\* a refreshUser whose catch block removes the tokens but keeps the user
refreshUserSettled_KeepUser(c, st, res) ==
    IF res.type = "value"
        THEN Both([c EXCEPT !.user = res.val, !.isAuthenticated = TRUE], st)
    ELSE Both([c EXCEPT !.isAuthenticated = FALSE], clearTokens(st))

\* UserContext.tsx 100-106: refreshUser once getCurrentUser() has settled
refreshUserSettled(c, st, res) ==
    IF res.type = "value"
        THEN Both([c EXCEPT !.user = res.val, !.isAuthenticated = TRUE], st)
    ELSE logout(c, st)

\* an account deletion that clears the tokens and logs out whatever the
\* answer of the DELETE request
deleteAccountSettled_OnFailure(c, st, res) == logout(c, clearTokens(st))

\* a handler that does not call logout() after the deletion: the tokens are
\* removed by deleteAccount() but the context keeps its user
deleteAccountSettled_NoLogout(c, st, res) ==
    IF res.type = "value" THEN Both(c, clearTokens(st))
    ELSE Both(c, st)

\* api.ts 254-257 deleteAccount and part_005 67-76 handleDeleteAccount,
\* once the DELETE request has settled
deleteAccountSettled(c, st, res) ==
    IF res.type = "value" THEN logout(c, clearTokens(st))
    ELSE Both(c, st)

\* What the caller of a settled request does with its result
Continue(kind, c, st, res) ==
    CASE kind = "mount" -> initAuthSettled(c, st, res)
      [] kind \in {"login", "register"} -> loginSettled(c, st, res)
      [] kind = "refreshUser" -> refreshUserSettled(c, st, res)
      [] kind = "deleteAccount" -> deleteAccountSettled(c, st, res)
      [] OTHER -> Both(c, st)

\* What an operation in flight keeps: the locals its code still reads (of
\* `token` only whether it is truthy, line 150).  The header values it sent
\* are recorded in lastOp, in the step that sent them, and so is the user
\* id a query was built for.
Locals(tk) ==
    [tk EXCEPT !.entered = FALSE, !.token = Null, !.auth = Null, !.rtok = Null,
               !.uid = NoUser]

\* One step of the operation in slot t with outcome o; when the request has
\* settled the caller's continuation runs in the same step.
Advance(t, o) ==
    /\ task' = [task EXCEPT ![t] = IF o.tk.pc = "done" THEN IdleTask
                                    ELSE Locals(o.tk)]
    /\ issued' = o.iss
    /\ lastOp' = o.tk
    /\ IF o.tk.pc = "done"
           THEN LET n == Continue(o.tk.kind, Ctx, o.st, o.tk.res) IN
                SetCtx(n.ctx) /\ storage' = n.st
       ELSE storage' = o.st /\ UNCHANGED ctxVars

\* The pages submit one form operation at a time (Login.tsx 111,
\* part_005 184 and 261 disable the button while one is pending); the
\* queries of a page run next to it and to each other (Dashboard.tsx 16-18).
\* Slot 1 takes any operation, the further slots take queries.
CanStart(t, kind) ==
    /\ mounted
    /\ t \in OpSlots
    /\ t > 1 => kind = "query"
    /\ task[t].pc = "idle"
    /\ \A s \in OpSlots : (s < t /\ (s > 1 => kind = "query")) => task[s].pc # "idle"

\* --------------------------------------------------------------- actions
\* State after construction: the useState initial values; localStorage is
\* empty or holds the tokens of an earlier visit.
Init ==
    /\ storage \in {EmptyStorage, setTokens(EmptyStorage, AuthTokens(1))}
    /\ issued = IF checkAuth(storage) THEN 1 ELSE 0
    /\ user = NoUser
    /\ isLoading = TRUE
    /\ error = NoError
    /\ hasResume = FALSE
    /\ isAuthenticated = FALSE
    /\ mounted = FALSE
    /\ task = [t \in Slots |-> IdleTask]
    /\ lastOp = IdleTask
    /\ call = NoCall
    /\ stream = NoStream

\* UserContext.tsx 37-53: the mount effect up to its first await
Mount ==
    /\ UNCHANGED <<call, stream>>
    /\ ~mounted
    /\ mounted' = TRUE
    /\ IF checkAuth(storage)
           THEN Advance(0, ApiRequestStart(NewTask("mount"), storage, issued))
       ELSE /\ lastOp' = [NewTask("mount") EXCEPT !.pc = "done"]
            /\ isLoading' = FALSE
            /\ UNCHANGED task
            /\ UNCHANGED <<storage, user, error, hasResume, isAuthenticated, issued>>

\* UserContext.tsx 55-60 / 73-78: login and register up to the credential call
StartCredential(t, kind) ==
    /\ UNCHANGED <<call, stream>>
    /\ CanStart(t, kind)
    /\ task' = [task EXCEPT ![t] = [NewTask(kind) EXCEPT !.pc = "cred", !.nCred = 1]]
    /\ lastOp' = task'[t]
    /\ isLoading' = TRUE
    /\ error' = NoError
    /\ UNCHANGED <<storage, user, hasResume, isAuthenticated, mounted, issued>>

StartLogin(t) == StartCredential(t, "login")

StartRegister(t) == StartCredential(t, "register")

\* UserContext.tsx 91-96: logout is synchronous
Logout ==
    /\ UNCHANGED <<call, stream>>
    /\ mounted
    /\ LET n == logout(Ctx, storage) IN SetCtx(n.ctx) /\ storage' = n.st
    /\ lastOp' = [NewTask("logout") EXCEPT !.pc = "done"]
    /\ UNCHANGED <<mounted, task, issued>>

\* UserContext.tsx 98-101: refreshUser up to its await
StartRefreshUser(t) ==
    /\ UNCHANGED <<call, stream>>
    /\ CanStart(t, "refreshUser")
    /\ UNCHANGED mounted
    /\ IF Truthy(getAccessToken(storage))
           THEN Advance(t, ApiRequestStart(NewTask("refreshUser"), storage, issued))
       ELSE /\ lastOp' = [NewTask("refreshUser") EXCEPT !.pc = "done"]
            /\ UNCHANGED <<task, storage, issued, user, isLoading, error, hasResume,
                           isAuthenticated>>

\* part_005 60-68: handleDeleteAccount up to the await of deleteAccount()
ConfirmTexts == {"DELETE", "delete"}
StartDeleteAccount(t) ==
    /\ UNCHANGED <<call, stream>>
    /\ CanStart(t, "deleteAccount")
    /\ UNCHANGED mounted
    /\ \E deleteConfirmText \in ConfirmTexts :
        IF deleteConfirmText # "DELETE"
            THEN /\ lastOp' = [NewTask("deleteAccount") EXCEPT
                                    !.pc = "done", !.cause = "not confirmed"]
                 /\ UNCHANGED <<task, storage, issued, user, isLoading, error, hasResume,
                                isAuthenticated>>
        ELSE Advance(t, ApiRequestStart(NewTask("deleteAccount"), storage, issued))

\* part_005 33-48 handlePasswordChange with api.ts 247-252
StartChangePassword(t) ==
    /\ UNCHANGED <<call, stream>>
    /\ CanStart(t, "changePassword")
    /\ UNCHANGED mounted
    /\ Advance(t, ApiRequestStart(NewTask("changePassword"), storage, issued))

\* a query hook with neither the enabled flag nor the check in queryFn
QueryEnabled_Always(u) == TRUE

\* useApi.ts 31 and 34: `enabled: !!user?.user_id`, and queryFn throws
\* 'User not logged in' before the client is called
QueryEnabled(u) == u # NoUser

\* useApi.ts 22-95, 149-162: a query of the page runs for the context's
\* user: queryKey [resource, user.user_id], request for user.user_id
StartQuery(t) ==
    /\ UNCHANGED <<call, stream>>
    /\ CanStart(t, "query")
    /\ QueryEnabled(user)
    /\ UNCHANGED mounted
    /\ Advance(t, ApiRequestStart([NewTask("query") EXCEPT !.uid = user], storage, issued))

\* The awaited credential call of login / register settles
CredentialResponse(t) ==
    /\ UNCHANGED <<call, stream>>
    /\ task[t].pc = "cred"
    /\ \E r \in TokenResponses :
        /\ (IsOk(r) /\ r.body = "json") => issued < MaxTok
        /\ Advance(t, CredentialOnResponse(task[t], r, storage, issued))
    /\ UNCHANGED mounted

\* The awaited first request of apiRequest settles
RequestResponse(t) ==
    /\ UNCHANGED <<call, stream>>
    /\ task[t].pc = "req"
    /\ \E r \in EndpointResponses(task[t].kind) :
        Advance(t, ApiRequestOnResponse(task[t], r, storage, issued))
    /\ UNCHANGED mounted

\* The awaited refresh call of tryRefreshToken settles
RefreshResponse(t) ==
    /\ UNCHANGED <<call, stream>>
    /\ task[t].pc = "refresh"
    /\ \E r \in RefreshResponses :
        /\ (IsOk(r) /\ r.body = "json") => issued < MaxTok
        /\ Advance(t, TryRefreshOnResponse(task[t], r, storage, issued))
    /\ UNCHANGED mounted

\* The awaited retried request settles
RetryResponse(t) ==
    /\ UNCHANGED <<call, stream>>
    /\ task[t].pc = "retry"
    /\ \E r \in EndpointResponses(task[t].kind) :
        Advance(t, RetryOnResponse(task[t], r, storage, issued))
    /\ UNCHANGED mounted

Next ==
    \/ Mount
    \/ Logout
    \/ \E t \in OpSlots : StartLogin(t)
    \/ \E t \in OpSlots : StartRegister(t)
    \/ \E t \in OpSlots : StartRefreshUser(t)
    \/ \E t \in OpSlots : StartDeleteAccount(t)
    \/ \E t \in OpSlots : StartChangePassword(t)
    \/ \E t \in OpSlots : StartQuery(t)
    \/ \E t \in OpSlots : CredentialResponse(t)
    \/ \E t \in Slots : RequestResponse(t)
    \/ \E t \in Slots : RefreshResponse(t)
    \/ \E t \in Slots : RetryResponse(t)

Spec == Init /\ [][Next]_vars

\* ------------------------------------------- the Token Store called alone
\* api.ts 98-118 called in any order with any token pair, from an empty
\* localStorage
InitStore ==
    /\ Init
    /\ storage = EmptyStorage

\* api.ts 106-109
StoreSetTokens ==
    /\ \E tokens \in TokenPairs :
        /\ storage' = setTokens(storage, tokens)
        /\ call' = [NoCall EXCEPT !.op = "setTokens", !.tokens = tokens]
    /\ UNCHANGED <<sessionVars, stream>>

\* api.ts 111-114
StoreClearTokens ==
    /\ storage' = clearTokens(storage)
    /\ call' = [NoCall EXCEPT !.op = "clearTokens"]
    /\ UNCHANGED <<sessionVars, stream>>

\* api.ts 98-104, 116-118: both getters and isAuthenticated()
StoreRead ==
    /\ call.op # "read"
    /\ call' = [op |-> "read", after |-> call.op, tokens |-> call.tokens,
                access |-> getAccessToken(storage),
                refresh |-> getRefreshToken(storage),
                auth |-> checkAuth(storage)]
    /\ UNCHANGED <<storage, sessionVars, stream>>

NextStore == StoreSetTokens \/ StoreClearTokens \/ StoreRead

SpecStore == InitStore /\ [][NextStore]_vars

\* ------------------------------------- the resume mutations, one at a time
\* The session at rest: nobody logged in, or a user loaded (the mutations
\* pass the id on as it is: the last of Users stands for any), with the
\* tokens of the login or (after an expired session) without
InitStream ==
    /\ \E u \in {NoUser, NumUsers} :
        /\ user = u
        /\ isAuthenticated = (u # NoUser)
        /\ storage \in IF u = NoUser THEN {EmptyStorage}
                       ELSE {EmptyStorage, setTokens(EmptyStorage, AuthTokens(1))}
    /\ issued = IF checkAuth(storage) THEN 1 ELSE 0
    /\ isLoading = FALSE
    /\ error = NoError
    /\ hasResume = FALSE
    /\ mounted = TRUE
    /\ task = [t \in Slots |-> IdleTask]
    /\ lastOp = IdleTask
    /\ call = NoCall
    /\ stream = NoStream

streamFrame == <<user, isLoading, error, isAuthenticated, mounted, task, issued, lastOp, call>>

\* useApi.ts 125-133 with api.ts 305-326: the call up to the await of fetch
StartProcessResume ==
    /\ stream.phase = "none"
    /\ \E throwOn \in ThrowsOn :
        stream' = UploadStart("process", user, storage, throwOn)
    /\ UNCHANGED <<storage, hasResume, streamFrame>>

\* useApi.ts 101-109 with api.ts 281-294: the call up to the await of fetch
StartUploadResume ==
    /\ stream.phase = "none"
    /\ stream' = UploadStart("upload", user, storage, NeverThrows)
    /\ UNCHANGED <<storage, hasResume, streamFrame>>

\* api.ts 319-337: the response arrives; a non-OK one is thrown as ApiError
ProcessResumeResponse ==
    /\ stream.phase = "fetch"
    /\ stream.kind = "process"
    /\ \E r \in EndpointResponses("processResume") :
        \E body \in IF IsOk(r) THEN Bodies ELSE {<<>>} :
            LET o == ProcessOnResponse(stream, r, body, storage) IN
            stream' = o.s /\ storage' = o.st
    /\ UNCHANGED <<hasResume, streamFrame>>

\* api.ts 291-302 and useApi.ts 110-117: the response arrives; onSuccess
\* runs when the call resolves
UploadResumeResponse ==
    /\ stream.phase = "fetch"
    /\ stream.kind = "upload"
    /\ \E r \in EndpointResponses("upload") :
        LET o == UploadOnResponse(stream, r, storage) IN
        /\ stream' = o.s
        /\ storage' = o.st
        /\ hasResume' = IF o.s.phase = "resolved" THEN TRUE ELSE hasResume
    /\ UNCHANGED streamFrame

\* api.ts 342-360: reader.read() returns the next bytes, however many
ReadSome ==
    /\ stream.phase = "reading"
    /\ \E n \in 1..(Len(stream.body) - stream.pos) :
        stream' = ReadChunk(stream, SubSeq(stream.body, stream.pos + 1, stream.pos + n))
    /\ UNCHANGED <<storage, hasResume, streamFrame>>

\* api.ts 343-344 and useApi.ts 134-141: reader.read() reports the end of
\* the stream; processResume resolves and onSuccess runs
ReadDone ==
    /\ stream.phase = "reading"
    /\ stream.pos = Len(stream.body)
    /\ stream' = MutationSuccess([stream EXCEPT !.phase = "resolved"])
    /\ hasResume' = TRUE
    /\ UNCHANGED <<storage, streamFrame>>

NextStream ==
    \/ StartProcessResume
    \/ StartUploadResume
    \/ ProcessResumeResponse
    \/ UploadResumeResponse
    \/ ReadSome
    \/ ReadDone

SpecStream == InitStream /\ [][NextStream]_vars

\* ------------------------- the resume mutations next to the session context
\* The page can log out while a mutation is in flight: nothing cancels the
\* mutation (useApi.ts 104-118, 128-142 have no abort signal), and its
\* onSuccess runs when it resolves.
NextResume ==
    \/ NextStream
    \/ Logout

SpecResume == InitStream /\ [][NextResume]_vars

\* ================================================================ claims
\* The operation of the step just taken called apiRequest
CalledApiRequest(op) == op.entered

\* ---------------------------------------------------------------- C1
\* What such a call settles with, and what its step leaves alone
C1_FailsBeforeNetwork ==
    (CalledApiRequest(lastOp) /\ RequireAuth(lastOp.kind) /\ ~Truthy(lastOp.token))
        => /\ lastOp.pc = "done"
           /\ lastOp.res = ApiError(401, MsgAuthRequired)
           /\ lastOp.nReq = 0
           /\ lastOp.nRefresh = 0
C1_StorageUntouched ==
    (CalledApiRequest(lastOp') /\ RequireAuth(lastOp'.kind) /\ ~Truthy(lastOp'.token))
        => storage' = storage /\ task' = task
\* C1: when apiRequest is called with requireAuth = true while no access
\* token is stored, the call fails at once with ApiError(401,
\* "Authentication required"); no request is sent to the endpoint, none to
\* the refresh endpoint, no request is left in flight by the step, and
\* localStorage is as it was.
C1_AuthRequired == [](C1_FailsBeforeNetwork) /\ [][C1_StorageUntouched]_vars

\* a password change attempted after the tokens were cleared
C1_Witness ==
    /\ CalledApiRequest(lastOp)
    /\ lastOp.kind = "changePassword"
    /\ lastOp.token = Null
    /\ lastOp.res = ApiError(401, MsgAuthRequired)
    /\ issued > 0

\* ---------------------------------------------------------------- C2
\* The step that sends the retry, the step that settles it, and the counts
\* of every invocation in flight
C2_RetrySent ==
    lastOp.pc = "retry"
        => /\ lastOp.attached
           /\ lastOp.nRefresh = 1
           /\ lastOp.nReq = 2
           /\ storage = setTokens(storage, AuthTokens(issued))
           /\ lastOp.auth = getAccessToken(storage)
C2_RetryFinal ==
    (lastOp.pc = "done" /\ lastOp.nReq = 2)
        => /\ lastOp.nRefresh = 1
           /\ lastOp.res = ResultOf(lastOp.last)
           /\ lastOp.cause = "none"
C2_Counts ==
    \A t \in Slots :
        /\ task[t].nRefresh <= 1
        /\ task[t].nReq <= 2
        /\ task[t].pc = "retry" <=> task[t].nReq = 2
        /\ task[t].nReq = 2 => task[t].nRefresh = 1
\* C2: when a request sent with a token gets 401 and the refresh succeeds,
\* the invocation makes exactly one refresh call and sends the request
\* exactly once more; the retry is sent in the step that stored the new
\* tokens and carries the access token then stored; what the invocation
\* settles with is the outcome of the retried response.
C2_RefreshThenRetry == C2_RetrySent /\ C2_RetryFinal /\ C2_Counts

\* a retried request that is itself answered 401: no second refresh
C2_Witness ==
    /\ lastOp.pc = "done"
    /\ lastOp.nReq = 2
    /\ lastOp.nRefresh = 1
    /\ lastOp.last.status = 401
    /\ lastOp.res.type = "ApiError"

\* ---------------------------------------------------------------- C3
\* An invocation that sent a token, got 401 and settled without a retry
RefreshDidNotSucceed(op) ==
    /\ op.pc = "done"
    /\ op.attached
    /\ op.nReq = 1
    /\ \/ op.nRefresh = 0 /\ op.last.status = 401
       \/ op.nRefresh = 1
\* C3: when a request sent with a token gets 401 and the refresh does not
\* succeed (no refresh token stored, a non-OK refresh response, a network
\* error or an unreadable body), then when the invocation fails both tokens
\* are absent, the error is the session-expired ApiError(401) and the
\* request was sent once only; with no refresh token stored no refresh call
\* is made.
C3_RefreshFailure ==
    RefreshDidNotSucceed(lastOp)
        => /\ getAccessToken(storage) = Null
           /\ getRefreshToken(storage) = Null
           /\ lastOp.res = ApiError(401, MsgSessionExpired)
           /\ (lastOp.nRefresh = 0 <=> lastOp.cause = "no refresh token")
           /\ lastOp.nRefresh = 1 =>
                  /\ lastOp.cause \in {"network error", "non-OK response", "body not JSON"}
                  /\ ~(IsOk(lastOp.last) /\ lastOp.last.body = "json")

\* a 401 that arrives after a logout has removed the refresh token
C3_Witness ==
    /\ RefreshDidNotSucceed(lastOp)
    /\ lastOp.cause = "no refresh token"
    /\ lastOp.nRefresh = 0
    /\ lastOp.kind = "query"

\* ---------------------------------------------------------------- C4
\* C4: in every reachable state, a non-null context user implies that an
\* access token is stored.
C4_UserImpliesToken == user # NoUser => getAccessToken(storage) # Null

\* ---------------------------------------------------------------- C5
\* The text of a whole body, its lines (each followed by a line feed), the
\* values of the lines that are JSON and the lines that are neither blank
\* nor JSON
TextOf(body) ==
    LET d == Decode(body, FALSE) IN
    IF d.pending THEN Append(d.text, Replacement) ELSE d.text
Terminated(text) == text = <<>> \/ text[Len(text)] = NL
LinesOf(text) == LET l == Split(text) IN SubSeq(l, 1, Len(l) - 1)
IsValidLine(line) == JsonParse(line).ok
IsMalformedLine(line) == Trim(line) # <<>> /\ ~JsonParse(line).ok
ValidLines(text) == SelectSeq(LinesOf(text), IsValidLine)
MalformedLines(text) == SelectSeq(LinesOf(text), IsMalformedLine)
ValuesOf(lines) == [i \in 1..Len(lines) |-> JsonParse(lines[i]).val]

\* The bodies and runs the statement is about
C5_Body(s) ==
    /\ s.phase = "resolved"
    /\ s.throwOn = NeverThrows
    /\ Terminated(TextOf(s.body))
    /\ Len(MalformedLines(TextOf(s.body))) = 1
C6_AfterLogout ==
    lastOp.kind = "logout"
        => /\ getAccessToken(storage) = Null
           /\ getRefreshToken(storage) = Null
           /\ user = NoUser
           /\ ~isAuthenticated
           /\ ~checkAuth(storage)
           /\ lastOp.nCred + lastOp.nReq + lastOp.nRefresh = 0
C6_NoNetwork ==
    lastOp'.kind = "logout" => task' = task /\ issued' = issued
\* C6: logout, from any state, removes both tokens and sets the context user
\* to null in the same step; afterwards isAuthenticated is false in the
\* context and in the Token Store; the step sends no network request and
\* touches no request in flight.
C6_Logout ==
    /\ [](C6_AfterLogout)
    /\ [](mounted => ENABLED Logout)
    /\ [][C6_NoNetwork]_vars

\* a logout while a request that carries a token is in flight
C6_Witness ==
    /\ lastOp.kind = "logout"
    /\ issued > 0
    /\ \E t \in Slots : task[t].pc = "req" /\ task[t].attached

\* ---------------------------------------------------------------- C7
\* What setTokens and clearTokens leave, and what a read after them returns
C7_Stored ==
    /\ call.op = "setTokens" =>
           /\ getAccessToken(storage) = call.tokens.access_token
           /\ getRefreshToken(storage) = call.tokens.refresh_token
    /\ call.op = "clearTokens" =>
           /\ getAccessToken(storage) = Null
           /\ getRefreshToken(storage) = Null
    /\ (call.op = "read" /\ call.after = "setTokens") =>
           /\ call.access = call.tokens.access_token
           /\ call.refresh = call.tokens.refresh_token
    /\ (call.op = "read" /\ call.after \in {"clearTokens", "none"}) =>
           /\ call.access = Null
           /\ call.refresh = Null
           /\ ~call.auth

\* C7: for every token pair, after setTokens(tokens) the getters return
\* tokens.access_token and tokens.refresh_token; after clearTokens() both
\* return null; isAuthenticated() is true exactly when the access token
\* stored is a non-empty string: it is false when none is stored and when
\* the empty string is.
C7_RoundTrip ==
    /\ C7_Stored
    /\ call.op = "read" =>
           (call.auth <=> (call.access # Null /\ call.access # EmptyStr))
    /\ checkAuth(storage) <=>
           (storage[ACCESS_TOKEN_KEY] # Null /\ storage[ACCESS_TOKEN_KEY] # EmptyStr)

\* C7 as stated: isAuthenticated() is true exactly when an access token is
\* stored.
C7_AsStated ==
    /\ C7_Stored
    /\ call.op = "read" => (call.auth <=> call.access # Null)
    /\ checkAuth(storage) <=> storage[ACCESS_TOKEN_KEY] # Null

\* a read after storing two different strings
C7_Witness ==
    /\ call.op = "read"
    /\ call.after = "setTokens"
    /\ call.tokens.access_token # call.tokens.refresh_token
    /\ call.access = call.tokens.access_token
    /\ call.refresh = call.tokens.refresh_token
    /\ call.auth

\* ---------------------------------------------------------------- C8
\* The states a login or register call passes through, and what a failing
\* call leaves alone
IsCredentialOp(op) == op.kind \in {"login", "register"}
C8_Order ==
    IsCredentialOp(lastOp)
        => /\ lastOp.nCred = 1
           /\ lastOp.pc = "cred" => (lastOp.nReq = 0 /\ isLoading /\ error = NoError)
           /\ (lastOp.pc = "req" /\ CalledApiRequest(lastOp)) =>
                  /\ storage = setTokens(storage, AuthTokens(issued))
                  /\ lastOp.auth = getAccessToken(storage)
           /\ (lastOp.pc = "done" /\ lastOp.res.type = "value") =>
                  /\ lastOp.nReq >= 1
                  /\ user = lastOp.res.val
                  /\ isAuthenticated
                  /\ ~isLoading
           /\ (lastOp.pc = "done" /\ lastOp.res.type # "value") =>
                  /\ lastOp.res.type \in {"ApiError", "TypeError", "SyntaxError"}
                  /\ error = lastOp.res.msg
                  /\ ~isLoading
C8_FailureKeepsSession ==
    (IsCredentialOp(lastOp') /\ ~(lastOp'.pc = "done" /\ lastOp'.res.type = "value"))
        => user' = user /\ isAuthenticated' = isAuthenticated
\* C8: login and register make the credential call first, store the tokens
\* of its response, then fetch the current user, and set the context user
\* only when that fetch has succeeded.  A failure at either step is what the
\* call rejects with, its message is recorded in the context, and no step of
\* such a call changes user or isAuthenticated.  isLoading is set while the
\* call runs and false when it settles, either way.
C8_LoginRegister == [](C8_Order) /\ [][C8_FailureKeepsSession]_vars

\* a login that stored its tokens and then failed at the current-user fetch,
\* while a user was set
C8_Witness ==
    /\ lastOp.kind = "login"
    /\ lastOp.pc = "done"
    /\ lastOp.nReq >= 1
    /\ lastOp.res.type = "ApiError"
    /\ lastOp.res.status = 500
    /\ user # NoUser

\* ---------------------------------------------------------------- C9
\* The state before the mount effect has run, the states the effect passes
\* through, and what its steps leave alone
C9_Start ==
    ~mounted => (isLoading /\ user = NoUser /\ ~isAuthenticated /\ task[0].pc = "idle")
C9_Mount ==
    lastOp.kind = "mount"
        => /\ mounted
           /\ (lastOp.pc = "done" /\ ~CalledApiRequest(lastOp) /\ lastOp.nReq = 0) =>
                  /\ ~checkAuth(storage)
                  /\ task[0].pc = "idle"
                  /\ ~isLoading
                  /\ ~isAuthenticated
                  /\ user = NoUser
           /\ CalledApiRequest(lastOp) =>
                  /\ lastOp.pc = "req"
                  /\ lastOp.nReq = 1
                  /\ Truthy(lastOp.token)
                  /\ isLoading
           /\ (lastOp.pc = "done" /\ lastOp.res.type = "value") =>
                  /\ user = lastOp.res.val
                  /\ isAuthenticated
                  /\ ~isLoading
           /\ (lastOp.pc = "done" /\ lastOp.nReq >= 1 /\ lastOp.res.type # "value") =>
                  /\ getAccessToken(storage) = Null
                  /\ getRefreshToken(storage) = Null
                  /\ ~isAuthenticated
                  /\ ~isLoading
C9_MountStep ==
    /\ (~mounted /\ mounted') =>
           /\ lastOp'.kind = "mount"
           /\ checkAuth(storage) <=> lastOp'.pc = "req"
           /\ storage' = storage
    /\ (lastOp'.kind = "mount" /\ lastOp'.pc = "done" /\ lastOp'.res.type # "value")
           => user' = user
C10_Settled ==
    lastOp.kind = "refreshUser"
        => /\ CalledApiRequest(lastOp) =>
                  (lastOp.pc = "req" /\ lastOp.nReq = 1 /\ Truthy(lastOp.token))
           /\ (lastOp.pc = "done" /\ lastOp.res.type = "value") =>
                  (user = lastOp.res.val /\ isAuthenticated)
           /\ (lastOp.pc = "done" /\ lastOp.nReq >= 1 /\ lastOp.res.type # "value") =>
                  /\ getAccessToken(storage) = Null
                  /\ getRefreshToken(storage) = Null
                  /\ user = NoUser
                  /\ ~isAuthenticated
           /\ (lastOp.pc = "done" /\ lastOp.nReq = 0) => lastOp.res = NoResult
C10_Called ==
    (lastOp'.kind = "refreshUser"
        /\ (CalledApiRequest(lastOp') \/ (lastOp'.pc = "done" /\ lastOp'.nReq = 0)))
        => IF Truthy(getAccessToken(storage))
               THEN CalledApiRequest(lastOp') /\ lastOp'.pc = "req"
           ELSE /\ lastOp'.pc = "done"
                /\ lastOp'.nReq = 0
                /\ task' = task
                /\ storage' = storage
                /\ UNCHANGED ctxVars
\* C10: refreshUser with a token stored fetches the current user again; on
\* success it sets the user and isAuthenticated; on any failure it logs out
\* in full: both tokens absent, user null, isAuthenticated false.  With no
\* token stored it sends nothing and changes nothing.
C10_RefreshUser == [](C10_Settled) /\ [][C10_Called]_vars

\* a refreshUser whose fetch fails with a server error, not a 401, while a
\* user was set: the session is logged out all the same
C10_Witness ==
    /\ lastOp.kind = "refreshUser"
    /\ lastOp.pc = "done"
    /\ lastOp.nReq = 1
    /\ lastOp.res.type = "ApiError"
    /\ lastOp.res.status = 500
    /\ lastOp.attached
    /\ user = NoUser
    /\ issued > 0

\* ------------------------------------------------------------------ C11
\* the four resource names a resume mutation must invalidate
ResumeAffected == {"recommendations", "skills", "analysis", "roadmap"}
\* every entry of those four resources kept for user u is invalidated
InvalidatedFor(u) == \A p \in ResumeAffected : <<p, u>> \in stream.stale

\* C11: the non-streaming upload for user u that receives an OK response with
\* a JSON body resolves with exactly that body, and on that success every
\* cache entry of recommendations, skills, analysis and roadmap for u is
\* invalidated; the same four are invalidated once a processResume mutation
\* has resolved.  A mutation that has not resolved invalidates nothing.
C11_UploadInvalidates ==
    /\ (stream.kind = "upload" /\ stream.phase \in {"resolved", "rejected"}
            /\ stream.nReq = 1 /\ IsOk(stream.last) /\ stream.last.body = "json")
        => /\ stream.phase = "resolved"
           /\ stream.res = [type |-> "value", status |-> 200, msg |-> "",
                            val |-> stream.last.val]
           /\ stream.uid = user
           /\ InvalidatedFor(stream.uid)
           /\ hasResume
    /\ (stream.kind = "process" /\ stream.phase = "resolved")
        => /\ stream.uid = user
           /\ InvalidatedFor(stream.uid)
           /\ hasResume
    /\ stream.phase # "resolved" => stream.stale = {}

\* an upload for user 2 that resolved with the server's body, value 2
C11_Witness ==
    /\ stream.kind = "upload"
    /\ stream.phase = "resolved"
    /\ stream.uid = 2
    /\ IsOk(stream.last)
    /\ stream.last.val = 2
    /\ stream.res.val = 2
    /\ <<"roadmap", 2>> \in stream.stale

\* ------------------------------------------------------------------ C12
\* a query is in flight only after it was started, with a request sent
C12_InFlight ==
    /\ \A t \in Slots : (task[t].kind = "query" /\ task[t].pc # "idle")
            => task[t].nReq >= 1
    /\ (lastOp.kind = "query" /\ CalledApiRequest(lastOp))
            => (lastOp.uid \in Users /\ lastOp.pc = "req" /\ lastOp.nReq = 1)
\* a query gets into flight, and its request is sent, only in the step that
\* starts it: the context has a user id then, and the request is keyed by
\* and sent for that id
C12_Started ==
    /\ (lastOp'.kind = "query" /\ CalledApiRequest(lastOp'))
        => (user # NoUser /\ lastOp'.uid = user /\ lastOp'.nReq = 1)
    /\ \A t \in Slots :
        (task'[t].kind = "query" /\ task'[t].pc = "req" /\ task[t].pc = "idle")
            => (lastOp'.kind = "query" /\ CalledApiRequest(lastOp'))
\* C12: no query fetch is issued while the context has no user id: every
\* query request in flight or completed was started when the user id was
\* known, and it is keyed by and sent for that id.
C12_QueriesNeedUser == [](C12_InFlight) /\ [][C12_Started]_vars

\* a query started for user 2 while no token is stored
C12_Witness ==
    /\ lastOp.kind = "query"
    /\ CalledApiRequest(lastOp)
    /\ lastOp.uid = 2
    /\ user = 2
    /\ lastOp.auth = Null
    /\ \E t \in OpSlots : task[t].kind = "query" /\ task[t].pc = "req"

\* ------------------------------------------------------------------ C13
\* the login credential call was answered, and not with an OK status
LoginRejected(op) ==
    /\ op.kind = "login"
    /\ op.pc = "done"
    /\ op.nCred = 1
    /\ op.nReq = 0
    /\ op.last.status # 0
    /\ ~IsOk(op.last)

\* C13: for every non-OK response to the login credential call, login()
\* rejects with an ApiError whose status is the response's status and whose
\* message is the server's detail when the body is JSON with a detail (so a
\* 401 with a detail yields that detail), and the context surfaces the same
\* message as its error.
C13_LoginError ==
    LoginRejected(lastOp)
        => /\ lastOp.res.type = "ApiError"
           /\ lastOp.res.status = lastOp.last.status
           /\ lastOp.last.body = "detail" => lastOp.res.msg = MsgServerDetail
           /\ error = lastOp.res.msg
           /\ ~isLoading

\* a login answered 401 with a detail
C13_Witness ==
    /\ LoginRejected(lastOp)
    /\ lastOp.last.status = 401
    /\ lastOp.last.body = "detail"
    /\ error = MsgServerDetail

\* ------------------------------------------------------------------ C14
\* the operation of the last step settled with a failure
Failed(op) == op.pc = "done" /\ op.res.type \notin {"value", "none"}

\* C14: every failure of a client-layer operation is raised as an ApiError
\* carrying a status and a message; a fetch that throws and an OK response
\* whose body is not JSON are turned into an ApiError, never thrown as they
\* are.
C14_OnlyApiError ==
    Failed(lastOp) => lastOp.res.type = "ApiError"

\* ------------------------------------------------------------------ C15
\* how far an invocation has come: each response moves it forward
Rank(pc) ==
    CASE pc = "cred" -> 0
      [] pc = "req" -> 1
      [] pc = "refresh" -> 2
      [] pc = "retry" -> 3
      [] OTHER -> 4
\* the message of the ApiError thrown for the non-OK response r
ServerMessage(r) == ErrorDetail(r, "Unknown error", "Request failed")
\* the counts of every invocation, running or just settled
C15_Bounded ==
    /\ \A t \in Slots : task[t].nRefresh <= 1 /\ task[t].nReq <= 2
    /\ lastOp.nRefresh <= 1 /\ lastOp.nReq <= 2
    /\ \A t \in Slots : task[t].pc = "retry" => (task[t].nRefresh = 1 /\ task[t].nReq = 2)
\* whatever non-OK answer the retried request gets in whatever reachable
\* state, apiRequest throws it and leaves localStorage as it is
C15_RetryKeeps ==
    \A t \in Slots : task[t].pc = "retry" =>
        \A r \in ErrorResponses :
            LET o == RetryOnResponse(task[t], r, storage, issued) IN
            /\ o.tk.pc = "done"
            /\ o.tk.res = ApiError(r.status, ServerMessage(r))
            /\ o.tk.nRefresh = 1
            /\ o.tk.nReq = 2
            /\ o.st = storage
            /\ o.iss = issued
\* every step of an invocation moves it forward
C15_Progress ==
    \A t \in Slots : (task[t].pc # "idle" /\ task'[t] # task[t])
        => Rank(task'[t].pc) > Rank(task[t].pc)
\* the step in which a retried request is answered with a non-OK status
C15_RetryFinal ==
    (lastOp'.pc = "done" /\ lastOp'.nReq = 2 /\ lastOp'.last.status # 0
        /\ ~IsOk(lastOp'.last))
        => /\ lastOp'.res = ApiError(lastOp'.last.status, ServerMessage(lastOp'.last))
           /\ lastOp'.nRefresh = 1
           /\ issued' = issued
           /\ \A t \in Slots : task'[t] = task[t] \/ task'[t] = IdleTask
           /\ lastOp'.kind \notin {"mount", "refreshUser"} => storage' = storage
\* C15: every apiRequest invocation ends after at most one refresh call and
\* at most two requests to the endpoint, whatever the server answers; when
\* the retried request is answered 401 or any other non-OK status the
\* invocation fails with that status and the server's message, no second
\* refresh is made, and the tokens the refresh stored stay in storage.
C15_SingleRetry ==
    [](C15_Bounded /\ C15_RetryKeeps) /\ [][C15_Progress /\ C15_RetryFinal]_vars

\* a query answered 401, refreshed, retried and answered 401 again: it has
\* failed with 401 and the tokens of the refresh are stored
C15_Witness ==
    /\ lastOp.kind = "query"
    /\ lastOp.pc = "done"
    /\ lastOp.nReq = 2
    /\ lastOp.nRefresh = 1
    /\ lastOp.last.status = 401
    /\ lastOp.res.type = "ApiError"
    /\ lastOp.res.status = 401
    /\ issued = 2
    /\ getAccessToken(storage) = AccessOf(2)
    /\ getRefreshToken(storage) = RefreshOf(2)

\* ------------------------------------------------------------------ C16
\* the 401 answers
Unauthorized == {r \in ErrorResponses : r.status = 401}
\* a request sent without a token is in flight: whatever 401 comes, in
\* whatever reachable state, apiRequest throws it and touches nothing
C16_Pending ==
    \A t \in Slots : (task[t].pc = "req" /\ ~task[t].attached) =>
        /\ ~RequireAuth(task[t].kind)
        /\ \A r \in Unauthorized :
            LET o == ApiRequestOnResponse(task[t], r, storage, issued) IN
            /\ o.tk.pc = "done"
            /\ o.tk.res = ApiError(401, ServerMessage(r))
            /\ o.tk.nRefresh = 0
            /\ o.tk.nReq = 1
            /\ o.st = storage
            /\ o.iss = issued
\* the step in which such a request is answered 401
C16_Answered ==
    (lastOp'.pc = "done" /\ ~lastOp'.attached /\ lastOp'.nReq = 1
        /\ lastOp'.last.status = 401)
        => /\ lastOp'.res = ApiError(401, ServerMessage(lastOp'.last))
           /\ lastOp'.nRefresh = 0
           /\ lastOp'.cause = "none"
           /\ storage' = storage
           /\ issued' = issued
           /\ \A t \in Slots : task'[t].pc \notin {"refresh", "retry"}
                                  \/ task'[t] = task[t]
\* C16: a 401 answer to an apiRequest that was sent without an Authorization
\* token (none stored, requireAuth false) starts no refresh and clears no
\* token: the request fails as an ordinary HTTP error with status 401 and
\* the server's message, and token storage is unchanged.
C16_NoTokenNoRefresh == [](C16_Pending) /\ [][C16_Answered]_vars

\* a query of a page whose user is still set while no token is stored,
\* answered 401 with a detail
C16_Witness ==
    /\ lastOp.kind = "query"
    /\ lastOp.pc = "done"
    /\ ~lastOp.attached
    /\ lastOp.nReq = 1
    /\ lastOp.last.status = 401
    /\ lastOp.last.body = "detail"
    /\ lastOp.res = ApiError(401, MsgServerDetail)
    /\ getAccessToken(storage) = Null
    /\ user # NoUser

\* ------------------------------------------------------------------ C17
\* the non-OK answers other than 401
ServerErrors == {r \in ErrorResponses : r.status # 401}
\* the message stated for the non-OK response r: the server's detail, else
\* a generic one
StatedMessage(r) ==
    CASE r.body = "detail" -> MsgServerDetail
      [] r.body = "garbage" -> "Unknown error"
      [] OTHER -> "Request failed"
\* a request is in flight: whatever non-401 error comes, in whatever
\* reachable state, apiRequest throws it, starts no refresh, touches nothing
C17_Pending ==
    \A t \in Slots : \A r \in ServerErrors :
        /\ task[t].pc = "req" =>
            LET o == ApiRequestOnResponse(task[t], r, storage, issued) IN
            /\ o.tk.pc = "done"
            /\ o.tk.res = ApiError(r.status, StatedMessage(r))
            /\ o.tk.nRefresh = 0
            /\ o.st = storage
            /\ o.iss = issued
        /\ task[t].pc = "retry" =>
            LET o == RetryOnResponse(task[t], r, storage, issued) IN
            /\ o.tk.pc = "done"
            /\ o.tk.res = ApiError(r.status, StatedMessage(r))
            /\ o.tk.nRefresh = task[t].nRefresh
            /\ o.st = storage
            /\ o.iss = issued
\* the step in which a request to the endpoint (not the refresh call) is
\* answered with such an error
C17_Answered ==
    (lastOp'.pc = "done" /\ lastOp'.nReq >= 1 /\ lastOp'.cause = "none"
        /\ lastOp'.last \in ServerErrors)
        => /\ lastOp'.res = ApiError(lastOp'.last.status, StatedMessage(lastOp'.last))
           /\ lastOp'.nRefresh = lastOp'.nReq - 1
           /\ issued' = issued
           /\ \A t \in Slots : task'[t].pc \notin {"refresh", "retry"}
                                  \/ task'[t] = task[t]
           /\ lastOp'.kind \notin {"mount", "refreshUser"} => storage' = storage
\* C17: for every non-OK response other than 401, apiRequest fails with an
\* ApiError whose status is the response's status and whose message is the
\* server's detail, or a generic message when the body is not JSON or has no
\* detail; no refresh is started and the stored tokens are unchanged.
C17_ServerError == [](C17_Pending) /\ [][C17_Answered]_vars

\* changePassword answered 500 with a body that is not JSON, tokens stored
C17_Witness ==
    /\ lastOp.kind = "changePassword"
    /\ lastOp.pc = "done"
    /\ lastOp.nReq = 1
    /\ lastOp.last.status = 500
    /\ lastOp.last.body = "garbage"
    /\ lastOp.res = ApiError(500, "Unknown error")
    /\ lastOp.nRefresh = 0
    /\ checkAuth(storage)

\* ------------------------------------------------------------------ C18
\* the upload call was answered, and not with an OK status
UploadAnswered(s) ==
    /\ s.phase = "rejected"
    /\ s.nReq = 1
    /\ s.last.status # 0
    /\ ~IsOk(s.last)
\* the message stated for the non-OK response r of an upload client
UploadMessage(kind, r) ==
    IF r.body = "detail" THEN MsgServerDetail
    ELSE IF kind = "upload" THEN "Upload failed" ELSE "Processing failed"
\* a login or register call in flight, as StartCredential leaves it
CredentialCall(kind) == [NewTask(kind) EXCEPT !.pc = "cred", !.nCred = 1]
\* a refresh call in flight, as an apiRequest answered 401 leaves it
RefreshCall(st, iss) ==
    ApiRequestOnResponse(ApiRequestStart(NewTask("changePassword"), st, iss).tk,
                         [status |-> 401, body |-> "detail", val |-> 0], st, iss).tk
\* one request per upload call and no refresh call; a rejected call has
\* delivered no event and invalidated nothing.  Likewise a credential call
\* and a refresh call end at their first non-OK or failed answer.
C18_OneRequest ==
    /\ stream.nReq <= 1
    /\ stream.nRefresh = 0
    /\ stream.phase \in {"fetch", "reading", "resolved"} => stream.nReq = 1
    /\ UploadAnswered(stream)
        => /\ stream.res = ApiError(stream.last.status,
                                    UploadMessage(stream.kind, stream.last))
           /\ stream.events = <<>>
           /\ stream.logged = <<>>
           /\ stream.stale = {}
           /\ ~hasResume
    /\ \A kind \in {"login", "register"} :
        \A r \in ErrorResponses \cup {NetworkError} :
            LET o == CredentialOnResponse(CredentialCall(kind), r, storage, issued) IN
            o.tk.pc = "done" /\ o.tk.nCred = 1 /\ o.tk.nReq = 0 /\ o.st = storage
    /\ checkAuth(storage) =>
        /\ RefreshCall(storage, issued).pc = "refresh"
        /\ \A r \in ErrorResponses \cup {NetworkError} :
            LET o == TryRefreshOnResponse(RefreshCall(storage, issued), r,
                                          storage, issued) IN
            o.tk.pc = "done" /\ o.tk.nRefresh = 1 /\ o.tk.nReq = 1
\* no step of an upload call touches the stored tokens, and the answer
\* settles the call: nothing is sent after it
C18_Frame ==
    /\ storage' = storage
    /\ stream.phase = "fetch" => stream'.nReq = stream.nReq
\* C18: uploadResume and processResume send exactly one request per call; on
\* any non-OK first response, 401 included, they fail at once with the
\* server's message, make no refresh call, do not retry, do not call the
\* progress callback, and leave the stored tokens unchanged; likewise login,
\* register and the refresh call are not sent again.
C18_UploadNoRetry == [](C18_OneRequest) /\ [][C18_Frame]_vars

\* processResume answered 401 with a detail while tokens are stored
C18_Witness ==
    /\ stream.kind = "process"
    /\ UploadAnswered(stream)
    /\ stream.last.status = 401
    /\ stream.last.body = "detail"
    /\ stream.auth = AccessOf(1)
    /\ checkAuth(storage)
    /\ stream.res = ApiError(401, MsgServerDetail)

\* ------------------------------------------------------------------ C19
\* the step stored the token pair of a server response
TokensWritten == storage' = setTokens(storage, AuthTokens(issued')) /\ issued' = issued + 1
\* the step removed both tokens
TokensCleared == storage' = clearTokens(storage)
\* the credential call of login or register succeeded in the step (the
\* context goes on to getCurrentUser() at once)
CredentialSucceeded(op) ==
    op.kind \in {"login", "register"} /\ op.nCred = 1 /\ CalledApiRequest(op)
\* the refresh call succeeded in the step (the request is retried at once)
RefreshSucceeded(op) == op.pc = "retry" /\ op.nRefresh = 1
\* the refresh of an invocation failed in the step
RefreshFailedIn(op) ==
    /\ op.pc = "done"
    /\ op.cause \in {"no refresh token", "network error", "non-OK response",
                     "body not JSON"}
\* logout() ran in the step: called by the page, or by refreshUser's catch
LoggedOut(op) ==
    \/ op.kind = "logout"
    \/ op.kind = "refreshUser" /\ op.pc = "done" /\ op.nReq >= 1 /\ op.res.type # "value"
\* the DELETE request of deleteAccount succeeded in the step
AccountDeleted(op) ==
    op.kind = "deleteAccount" /\ op.pc = "done" /\ op.nReq >= 1 /\ op.res.type = "value"
\* the current-user fetch of the mount effect failed in the step
MountFetchFailed(op) ==
    op.kind = "mount" /\ op.pc = "done" /\ op.nReq >= 1 /\ op.res.type # "value"

\* C19: stored tokens are written only when a login, register or refresh
\* call succeeds, and cleared only by logout, a failed refresh or a
\* successful account deletion; every other operation and outcome leaves
\* both stored tokens unchanged.
C19_AsStated ==
    [][storage' # storage =>
        \/ TokensWritten /\ (CredentialSucceeded(lastOp') \/ RefreshSucceeded(lastOp'))
        \/ TokensCleared /\ (LoggedOut(lastOp') \/ RefreshFailedIn(lastOp')
                                \/ AccountDeleted(lastOp'))]_vars

\* C19 (amended): stored tokens are written only when a login, register or
\* refresh call succeeds, and cleared only by logout, a failed refresh, a
\* successful account deletion, or a failed current-user fetch of the mount
\* effect (any failure); every other operation and outcome leaves both
\* stored tokens unchanged.
C19_TokenLifecycle ==
    [][storage' # storage =>
        \/ TokensWritten /\ (CredentialSucceeded(lastOp') \/ RefreshSucceeded(lastOp'))
        \/ TokensCleared /\ (LoggedOut(lastOp') \/ RefreshFailedIn(lastOp')
                                \/ AccountDeleted(lastOp') \/ MountFetchFailed(lastOp'))]_vars

\* the mount fetch answered 500, with no refresh involved: the tokens the
\* page was loaded with are gone
C19_Witness ==
    /\ MountFetchFailed(lastOp)
    /\ lastOp.last.status = 500
    /\ lastOp.nRefresh = 0
    /\ lastOp.attached
    /\ getAccessToken(storage) = Null
    /\ getRefreshToken(storage) = Null
    /\ issued = 1

\* ------------------------------------------------------------------ C20
\* no operation is in flight
Quiescent == \A t \in Slots : task[t].pc = "idle"
\* the context's login() or register() failed in the last step
CredentialOpFailed(op) == IsCredentialOp(op) /\ Failed(op)

\* C20: when the context's login() or register() has failed at any step,
\* the case included where the tokens were returned and the following
\* current-user fetch failed with a non-401 error, the Token Store is as it
\* was before the call, so that with nothing in flight its isAuthenticated()
\* agrees with the context's isAuthenticated flag.
C20_FailureAgrees ==
    (CredentialOpFailed(lastOp) /\ Quiescent) => (checkAuth(storage) = isAuthenticated)

\* ------------------------------------------------------------------ C21
\* the text of the bytes read so far, as one decoding of them yields it (a
\* lead byte at the end is still with the decoder)
TextRead(s) == Decode(SubSeq(s.body, 1, s.pos), FALSE).text
\* the pieces of that text between line feeds; the last one is not yet a line
PartialLine(text) == LET l == Split(text) IN l[Len(l)]
BlankLines(text) == SelectSeq(LinesOf(text), LAMBDA line : Trim(line) = <<>>)

\* C21: the line reassembly of processResume does not depend on where the
\* reads cut the response: after any reads of any sizes the callback has
\* been called with the values of the valid lines among the lines ended by
\* a line feed so far, each once and in stream order, and the partial line
\* is kept; blank lines give neither a callback nor a log entry; a
\* malformed line is logged and the lines after it are still delivered.
C21_ChunkIndependent ==
    (stream.kind = "process" /\ stream.phase \in {"reading", "resolved"})
        => LET text == TextRead(stream) IN
           /\ stream.events = ValuesOf(ValidLines(text))
           /\ stream.buffer = PartialLine(text)
           /\ stream.throwOn = NeverThrows =>
                /\ stream.logged = MalformedLines(text)
                /\ Len(stream.events) + Len(stream.logged) + Len(BlankLines(text))
                       = Len(LinesOf(text))

\* a blank line, a malformed line cut from its line feed by a read, then a
\* valid line: the valid line is delivered, the malformed one logged
C21_Witness ==
    /\ stream.phase = "resolved"
    /\ stream.throwOn = NeverThrows
    /\ stream.body = <<NL, Cont, NL, "1", NL>>
    /\ stream.carried = <<Replacement>>
    /\ stream.events = <<1>>
    /\ stream.logged = <<(<<Replacement>>)>>

\* ------------------------------------------------------------------ C22
\* every event line of the text, the last one included when no line feed
\* follows it
EventLines(text) == SelectSeq(Split(text), IsValidLine)

\* C22: when the byte stream ends processResume resolves having delivered
\* every event of the stream: the last event line is parsed and handed to
\* the callback even when no line feed follows it.
C22_LastLineDelivered ==
    (stream.kind = "process" /\ stream.phase = "resolved")
        => stream.events = ValuesOf(EventLines(TextOf(stream.body)))

\* ------------------------------------------------------------------ C23
\* the session as logout() leaves it
Anonymous ==
    /\ user = NoUser
    /\ ~isAuthenticated
    /\ getAccessToken(storage) = Null
    /\ getRefreshToken(storage) = Null
\* login() or register() is called in the step
CredentialStarted(op) == IsCredentialOp(op) /\ op.pc = "cred"

\* C23: logout is final under interleaving: once logout() has returned and
\* no login() or register() is started afterwards, the context stays
\* anonymous and both tokens stay absent, whatever the operations that were
\* in flight at the time of the logout do when they complete.  Stated for
\* the step that follows the logout, whichever operation takes it.
C23_LogoutFinal ==
    [][(lastOp.kind = "logout" /\ Anonymous /\ ~CredentialStarted(lastOp'))
          => Anonymous']_vars

\* ------------------------------------------------------------------ C24
\* The request of the mount effect is sent with the access token the page
\* was loaded with, the first pair: session A.  A later session, B, has
\* stored another pair while that request is in flight.
LaterSession ==
    /\ task[0].kind = "mount"
    /\ task[0].pc = "req"
    /\ task[0].attached
    /\ Truthy(getAccessToken(storage))
    /\ getAccessToken(storage) # AccessOf(1)
\* the request in flight under session A is answered 401 in the step: the
\* invocation goes on to the refresh call, or settles on that answer
LateAnswer ==
    /\ lastOp'.kind = "mount"
    /\ task'[0] # task[0]
    /\ \/ lastOp'.pc = "refresh"
       \/ lastOp'.pc = "done" /\ lastOp'.last.status = 401

\* C24: a request started under one session cannot affect a later session's
\* credentials: when a request sent with session A's token is answered 401
\* after a login as B, it neither refreshes with B's refresh token, nor
\* replays the request with B's access token, nor clears B's stored tokens.
C24_SessionsApart ==
    [][(LaterSession /\ LateAnswer)
          => /\ storage' = storage
             /\ issued' = issued
             /\ lastOp'.pc \notin {"refresh", "retry"}
             /\ lastOp'.rtok = Null]_vars

\* ------------------------------------------------------------------ C25
\* C25: in every reachable state of the context isAuthenticated is true
\* exactly when user is non-null: no operation sets one without the other.
C25_FlagMatchesUser == isAuthenticated = (user # NoUser)

\* ------------------------------------------------------------------ C26
\* localStorage holds exactly the pair of the n-th token response
HoldsPair(st, n) == st = setTokens(EmptyStorage, AuthTokens(n))

\* C26: token pair integrity: in every reachable state, under any
\* interleaving of login, register, refresh, logout and failed-refresh
\* clearing, both tokens are absent from storage or both are present and
\* come from the same token response of the server; an access token of one
\* response is never stored with the refresh token of another.
C26_PairIntegrity ==
    \/ storage = EmptyStorage
    \/ \E n \in 1..issued : HoldsPair(storage, n)

\* the refresh of the mount effect's request has stored the second pair
\* while a login is in flight
C26_Witness ==
    /\ lastOp.kind = "mount"
    /\ lastOp.pc = "retry"
    /\ issued = 2
    /\ HoldsPair(storage, 2)
    /\ \E t \in OpSlots : task[t].kind = "login" /\ task[t].pc = "cred"

\* ------------------------------------------------------------------ C27
\* C27: hasResume becomes true only when an upload or process mutation
\* succeeds, a failed mutation leaves it unchanged and invalidates nothing,
\* and logout resets it to false, so that hasResume is false whenever the
\* context has no user.
C27_ResumeNeedsUser ==
    /\ hasResume => stream.phase = "resolved"
    /\ stream.phase = "rejected" => stream.stale = {}
    /\ hasResume => user # NoUser

\* ------------------------------------------------------------------ C28
\* the handler returned at its check of the confirmation text
NotConfirmed(op) == op.kind = "deleteAccount" /\ op.cause = "not confirmed"
\* the DELETE request was answered with an HTTP error other than 401
DeleteRejected(op) ==
    /\ op.kind = "deleteAccount"
    /\ op.pc = "done"
    /\ op.nReq >= 1
    /\ op.cause = "none"
    /\ op.last \in ServerErrors

\* C28: deleteAccount clears the stored tokens only after the DELETE
\* request has succeeded; when the request fails with an HTTP error other
\* than 401 the tokens and the context are unchanged; the handler sends the
\* request only when the confirmation text is exactly DELETE; after a
\* successful deletion it logs out: user null, tokens absent.
C28_DeleteAccount ==
    [][lastOp'.kind = "deleteAccount" =>
        /\ NotConfirmed(lastOp') =>
              /\ lastOp'.pc = "done"
              /\ lastOp'.nReq = 0
              /\ ~CalledApiRequest(lastOp')
              /\ task' = task
              /\ storage' = storage
              /\ UNCHANGED ctxVars
        /\ AccountDeleted(lastOp') => (Anonymous' /\ ~hasResume')
        /\ DeleteRejected(lastOp') =>
              /\ lastOp'.res = ApiError(lastOp'.last.status, StatedMessage(lastOp'.last))
              /\ storage' = storage
              /\ UNCHANGED ctxVars
        /\ (storage' # storage /\ ~AccountDeleted(lastOp')) =>
              (RefreshSucceeded(lastOp') \/ RefreshFailedIn(lastOp'))]_vars

\* an account deleted by a request sent with the stored token, answered OK
\* at once: the session is logged out
C28_Witness ==
    /\ AccountDeleted(lastOp)
    /\ lastOp.attached
    /\ lastOp.nReq = 1
    /\ Anonymous
    /\ issued = 1
    /\ mounted
    /\ task[0].pc = "idle"

\* ------------------------------------------------------------------ C29
\* the callback throws when called with the value of this line
Throws(line, throwOn) == JsonParse(line).ok /\ JsonParse(line).val = throwOn
\* the lines the catch block logs: parse failures and throws of the callback
CaughtLines(text, throwOn) ==
    SelectSeq(LinesOf(text), LAMBDA line : IsMalformedLine(line) \/ Throws(line, throwOn))
\* with a callback that throws: every valid line read so far has been
\* handed to it, the throwing ones included, and each throw is logged like a
\* parse failure; at the end of the stream the call can resolve
C29_Delivered ==
    (stream.kind = "process" /\ stream.phase \in {"reading", "resolved"}
        /\ stream.throwOn # NeverThrows)
        => LET text == TextRead(stream) IN
           /\ stream.events = ValuesOf(ValidLines(text))
           /\ stream.logged = CaughtLines(text, stream.throwOn)
           /\ (stream.phase = "reading" /\ stream.pos = Len(stream.body))
                  => ENABLED ReadDone
\* no pass of the loop ends the call: it goes on reading or resolves
C29_LoopGoesOn ==
    stream.phase = "reading" => stream'.phase \in {"reading", "resolved"}
\* C29: an exception thrown by the progress callback does not abort
\* processResume: it is caught by the handler that catches a JSON parse
\* failure and logged, every later line of the stream is still parsed and
\* delivered, and processResume resolves when the stream ends.
C29_CallbackThrows == [](C29_Delivered) /\ [][C29_LoopGoesOn]_vars

\* the callback threw on the first line, 1; the second line, 11, was
\* delivered all the same and the call resolved
C29_Witness ==
    /\ stream.phase = "resolved"
    /\ stream.throwOn = 1
    /\ stream.body = <<"1", NL, "1", "1", NL>>
    /\ stream.events = <<1, 11>>
    /\ stream.logged = <<(<<"1">>)>>

====
